---- MODULE Spec2Model ----
(***************************************************************************)
(* A model of the go-api user service: the five handlers of               *)
(* controllers/user_controller.go over the users table they share through *)
(* one *gorm.DB handle.                                                    *)
(*                                                                         *)
(* Three specifications are given over the same handlers:                  *)
(*   Spec         requests served one after the other (each handler is    *)
(*                one action), with the last request and its response     *)
(*                recorded, and the history of created records;           *)
(*   SpecDeleted  the same, with the history of deleted ids instead;       *)
(*   SpecConc     requests served by parallel workers, a handler being     *)
(*                the sequence of its library calls (Atoi, First,          *)
(*                ShouldBindJSON, Updates/Delete/Create), each database     *)
(*                statement atomic.                                         *)
(*                                                                         *)
(* Store failures other than a violated PRIMARY KEY constraint (a full     *)
(* disk, a locked file) are not injected: the 500 branches of the handlers *)
(* are reached through the constraint only.                                *)
(***************************************************************************)
EXTENDS Integers, Sequences, FiniteSets, TLC

\* ------------------------------------------------------------------ bounds

\* Largest id the model lets the table hold (ids grow without bound in the
\* program; the actions' guards cap them).
MaxId == 2

\* Number of parallel workers of SpecConc.
NumWorkers == 2
Workers == 1 .. NumWorkers

\* ------------------------------------------------------------- HTTP status

StatusOK == 200
StatusCreated == 201
StatusBadRequest == 400
StatusNotFound == 404
StatusInternalServerError == 500

\* --------------------------------------------------------------- the entity

\* models.User as a Go value; the zero value has every field zero.
User(id, name, email) == [ID |-> id, Name |-> name, Email |-> email]
ZeroUser == User(0, "", "")

Names == {"a"}
Emails == {"x"}

\* ---------------------------------------------------------------- requests

\* The :id path parameter is a string; strings that are parsed are modelled
\* as sequences of characters.
Params ==
    { <<"1">>, <<"2">>, <<"+", "1">>, <<"-", "1">>, <<"1", "x">> }
NoParam == <<>>

\* A JSON value of a request body.
JNum(n) == [t |-> "num", n |-> n, s |-> ""]
JStr(s) == [t |-> "str", n |-> 0, s |-> s]

\* A request body: text that is not JSON, or a JSON object given as a function
\* from the keys it carries to their values.
SyntaxError == [kind |-> "syntax-error", fields |-> <<>>]
Object(f) == [kind |-> "object", fields |-> f]
NoBody == SyntaxError

Keys == {"id", "name", "email"}

KeyValues(k) ==
    CASE k = "id" -> {JNum(n) : n \in 1 .. MaxId}
      [] k = "name" -> {JStr(s) : s \in Names \cup {""}}
      [] k = "email" -> {JStr(s) : s \in Emails}

\* The key sets of the objects the model sends.
BodyShapes == { {}, {"name"}, {"email"}, {"name", "email"}, {"id"} }

\* Objects whose values have the type of the field they name.
TypedObjects ==
    UNION { { Object(f) : f \in { g \in [D -> UNION {KeyValues(k) : k \in D}] :
                                    \A k \in D : g[k] \in KeyValues(k) } } :
            D \in BodyShapes }

\* An object with a value of the wrong type: a number for name.
MistypedObjects == { Object([k \in {"name"} |-> JNum(1)]) }

Bodies == {SyntaxError} \cup TypedObjects \cup MistypedObjects

\* The bodies of the shape {name, email}: exactly these two keys.
NameEmailBodies == { b \in TypedObjects : DOMAIN b.fields = {"name", "email"} }

\* ------------------------------------------------------------ strconv.Atoi

Digits == {"0", "1", "2", "3", "4", "5", "6", "7", "8", "9"}

DigitVal(c) ==
    CASE c = "0" -> 0 [] c = "1" -> 1 [] c = "2" -> 2 [] c = "3" -> 3
      [] c = "4" -> 4 [] c = "5" -> 5 [] c = "6" -> 6 [] c = "7" -> 7
      [] c = "8" -> 8 [] c = "9" -> 9

RECURSIVE ParseDigits(_, _)
ParseDigits(s, n) ==
    IF s = <<>> THEN [ok |-> TRUE, val |-> n]
    ELSE IF Head(s) \notin Digits THEN [ok |-> FALSE, val |-> 0]
    ELSE ParseDigits(Tail(s), n * 10 + DigitVal(Head(s)))

\* strconv.Atoi on a string short enough for its fast path: an optional sign,
\* then one or more decimal digits.
Atoi(s) ==
    IF Len(s) = 0 THEN [ok |-> FALSE, val |-> 0]
    ELSE LET digits == IF Head(s) \in {"+", "-"} THEN Tail(s) ELSE s
             r == ParseDigits(digits, 0)
         IN  IF Len(digits) < 1 \/ ~r.ok THEN [ok |-> FALSE, val |-> 0]
             ELSE [ok |-> TRUE, val |-> IF Head(s) = "-" THEN 0 - r.val ELSE r.val]

\* ---------------------------------------------------- gin's ShouldBindJSON

\* Decoding a body into a models.User: a key that is absent leaves the field
\* at its zero value; a value of the wrong type, or text that is not JSON, is
\* an error.
ShouldBindJSON(body) ==
    IF body.kind # "object" THEN [err |-> "invalid json", user |-> ZeroUser]
    ELSE LET f == body.fields
             has(k) == k \in DOMAIN f
         IN  IF \/ has("id") /\ f["id"].t # "num"
                \/ has("name") /\ f["name"].t # "str"
                \/ has("email") /\ f["email"].t # "str"
             THEN [err |-> "cannot unmarshal", user |-> ZeroUser]
             ELSE [err |-> "",
                   user |-> User(IF has("id") THEN f["id"].n ELSE 0,
                                 IF has("name") THEN f["name"].s ELSE "",
                                 IF has("email") THEN f["email"].s ELSE "")]

\* ----------------------------------------------------------- the database

\* The users table: its rows, and sqlite_sequence (the largest id an INSERT
\* has used), which AUTOINCREMENT keeps so that ids are not handed out twice.
EmptyDB == [rows |-> {}, seq |-> 0]

Max(a, b) == IF a >= b THEN a ELSE b

RowIds(rows) == {r.ID : r \in rows}

MaxRowid(rows) ==
    IF rows = {} THEN 0 ELSE CHOOSE m \in RowIds(rows) : \A i \in RowIds(rows) : i <= m

\* The rowid SQLite chooses for an INSERT that names none.
NextRowid(db) == Max(db.seq, MaxRowid(db.rows)) + 1

RECURSIVE SortedById(_)
SortedById(rows) ==
    IF rows = {} THEN <<>>
    ELSE LET first == CHOOSE r \in rows : \A q \in rows : r.ID <= q.ID
         IN  <<first>> \o SortedById({q \in rows : q.ID # first.ID})

\* A Go slice of users: nil as declared, or allocated.
NilSlice == [isNil |-> TRUE, elems |-> <<>>]
MakeSlice(elems) == [isNil |-> FALSE, elems |-> elems]

\* db.Find(&users): SELECT * FROM users. The destination is replaced by a
\* slice made for the result, also when no row is returned.
DBFind(db) == [err |-> "", users |-> MakeSlice(SortedById(db.rows))]

\* db.First(&user, id): SELECT ... WHERE id = ? ORDER BY id LIMIT 1.
DBFirst(db, id) ==
    IF \E r \in db.rows : r.ID = id
    THEN [err |-> "", user |-> CHOOSE r \in db.rows : r.ID = id]
    ELSE [err |-> "ErrRecordNotFound", user |-> ZeroUser]

\* db.Create(&user): INSERT. A zero primary key is left to the table; a
\* non-zero one is inserted as given and fails on a row that has it.
DBCreate(db, user) ==
    LET id == IF user.ID = 0 THEN NextRowid(db) ELSE user.ID
        row == [user EXCEPT !.ID = id]
    IN  IF id \in RowIds(db.rows)
        THEN [err |-> "UNIQUE constraint failed", db |-> db, user |-> user]
        ELSE [err |-> "",
              db |-> [rows |-> db.rows \cup {row}, seq |-> Max(db.seq, id)],
              user |-> row]

\* The columns Updates(struct) assigns: the non-zero fields of the struct,
\* the primary key among them (the struct is not the statement's model).
Assign(row, data) ==
    User(IF data.ID # 0 THEN data.ID ELSE row.ID,
         IF data.Name # "" THEN data.Name ELSE row.Name,
         IF data.Email # "" THEN data.Email ELSE row.Email)

\* db.Model(&user).Updates(data): UPDATE users SET ... WHERE id = user.ID.
\* No statement is run when no field is assigned; a statement that matches no
\* row is no error; the assigned fields are written to user as well.
DBUpdates(db, user, data) ==
    LET target == {r \in db.rows : r.ID = user.ID}
        others == db.rows \ target
        written == {Assign(r, data) : r \in target}
    IN  IF data = ZeroUser
        THEN [err |-> "", db |-> db, user |-> user, rowsAffected |-> 0]
        ELSE IF \E w \in written : w.ID \in RowIds(others)
        THEN [err |-> "UNIQUE constraint failed", db |-> db,
              user |-> Assign(user, data), rowsAffected |-> 0]
        ELSE [err |-> "", db |-> [db EXCEPT !.rows = others \cup written],
              user |-> Assign(user, data), rowsAffected |-> Cardinality(target)]

\* db.Delete(&user): DELETE FROM users WHERE id = user.ID. A statement that
\* matches no row is no error.
DBDelete(db, user) ==
    LET target == {r \in db.rows : r.ID = user.ID}
    IN  IF user.ID = 0
        THEN [err |-> "ErrMissingWhereClause", db |-> db, rowsAffected |-> 0]
        ELSE [err |-> "", db |-> [db EXCEPT !.rows = db.rows \ target],
              rowsAffected |-> Cardinality(target)]

\* ---------------------------------------------------------------- c.JSON

\* A response body.
NoOut == [kind |-> "none", user |-> ZeroUser, users |-> <<>>]
ErrorJSON == [kind |-> "error", user |-> ZeroUser, users |-> <<>>]
MessageJSON == [kind |-> "message", user |-> ZeroUser, users |-> <<>>]
UserJSON(u) == [kind |-> "user", user |-> u, users |-> <<>>]
\* A nil slice is encoded as null, an allocated one as an array.
UsersJSON(slice) ==
    IF slice.isNil THEN [kind |-> "null", user |-> ZeroUser, users |-> <<>>]
    ELSE [kind |-> "array", user |-> ZeroUser, users |-> slice.elems]

\* ------------------------------------------------------------ the handlers

\* What a handler leaves behind: the response, the database, and the library
\* calls it made, in order.
Resp(status, out, db, ops) == [status |-> status, out |-> out, db |-> db, ops |-> ops]

\* GetUsers answering with the slice as declared when the table has no row.
GetUsers_NilWhenEmpty(db) ==
    LET result == DBFind(db)
        users == IF result.users.elems = <<>> THEN NilSlice ELSE result.users
    IN  IF result.err # ""
        THEN Resp(StatusInternalServerError, ErrorJSON, db, <<"Find">>)
        ELSE Resp(StatusOK, UsersJSON(users), db, <<"Find">>)

GetUsers(db) ==
    LET result == DBFind(db)
    IN  IF result.err # ""
        THEN Resp(StatusInternalServerError, ErrorJSON, db, <<"Find">>)
        ELSE Resp(StatusOK, UsersJSON(result.users), db, <<"Find">>)

\* GetUser without the check of Atoi's error.
GetUser_IgnoresAtoiError(db, param) ==
    LET id == Atoi(param)
        result == DBFirst(db, id.val)
    IN  IF result.err = "ErrRecordNotFound"
        THEN Resp(StatusNotFound, ErrorJSON, db, <<"Atoi", "First">>)
        ELSE IF result.err # ""
        THEN Resp(StatusInternalServerError, ErrorJSON, db, <<"Atoi", "First">>)
        ELSE Resp(StatusOK, UserJSON(result.user), db, <<"Atoi", "First">>)

GetUser(db, param) ==
    LET id == Atoi(param)
        result == DBFirst(db, id.val)
    IN  IF ~id.ok THEN Resp(StatusBadRequest, ErrorJSON, db, <<"Atoi">>)
        ELSE IF result.err = "ErrRecordNotFound"
        THEN Resp(StatusNotFound, ErrorJSON, db, <<"Atoi", "First">>)
        ELSE IF result.err # ""
        THEN Resp(StatusInternalServerError, ErrorJSON, db, <<"Atoi", "First">>)
        ELSE Resp(StatusOK, UserJSON(result.user), db, <<"Atoi", "First">>)

\* CreateUser answering with the user as bound, not as inserted.
CreateUser_AnswersBound(db, body) ==
    LET bound == ShouldBindJSON(body)
        result == DBCreate(db, bound.user)
    IN  IF bound.err # ""
        THEN Resp(StatusBadRequest, ErrorJSON, db, <<"ShouldBindJSON">>)
        ELSE IF result.err # ""
        THEN Resp(StatusInternalServerError, ErrorJSON, result.db,
                  <<"ShouldBindJSON", "Create">>)
        ELSE Resp(StatusCreated, UserJSON(bound.user), result.db,
                  <<"ShouldBindJSON", "Create">>)

CreateUser(db, body) ==
    LET bound == ShouldBindJSON(body)
        result == DBCreate(db, bound.user)
    IN  IF bound.err # ""
        THEN Resp(StatusBadRequest, ErrorJSON, db, <<"ShouldBindJSON">>)
        ELSE IF result.err # ""
        THEN Resp(StatusInternalServerError, ErrorJSON, result.db,
                  <<"ShouldBindJSON", "Create">>)
        ELSE Resp(StatusCreated, UserJSON(result.user), result.db,
                  <<"ShouldBindJSON", "Create">>)

\* UpdateUser without the check of ErrRecordNotFound.
UpdateUser_NoNotFound(db, param, body) ==
    LET id == Atoi(param)
        found == DBFirst(db, id.val)
        bound == ShouldBindJSON(body)
        result == DBUpdates(db, found.user, bound.user)
    IN  IF ~id.ok THEN Resp(StatusBadRequest, ErrorJSON, db, <<"Atoi">>)
        ELSE IF bound.err # ""
        THEN Resp(StatusBadRequest, ErrorJSON, db, <<"Atoi", "First", "ShouldBindJSON">>)
        ELSE IF result.err # ""
        THEN Resp(StatusInternalServerError, ErrorJSON, result.db,
                  <<"Atoi", "First", "ShouldBindJSON", "Updates">>)
        ELSE Resp(StatusOK, UserJSON(result.user), result.db,
                  <<"Atoi", "First", "ShouldBindJSON", "Updates">>)

\* UpdateUser binding the body before it looks the record up.
UpdateUser_BindFirst(db, param, body) ==
    LET id == Atoi(param)
        found == DBFirst(db, id.val)
        bound == ShouldBindJSON(body)
        result == DBUpdates(db, found.user, bound.user)
    IN  IF ~id.ok THEN Resp(StatusBadRequest, ErrorJSON, db, <<"Atoi">>)
        ELSE IF bound.err # ""
        THEN Resp(StatusBadRequest, ErrorJSON, db, <<"Atoi", "ShouldBindJSON">>)
        ELSE IF found.err = "ErrRecordNotFound"
        THEN Resp(StatusNotFound, ErrorJSON, db, <<"Atoi", "ShouldBindJSON", "First">>)
        ELSE IF found.err # ""
        THEN Resp(StatusInternalServerError, ErrorJSON, db,
                  <<"Atoi", "ShouldBindJSON", "First">>)
        ELSE IF result.err # ""
        THEN Resp(StatusInternalServerError, ErrorJSON, result.db,
                  <<"Atoi", "ShouldBindJSON", "First", "Updates">>)
        ELSE Resp(StatusOK, UserJSON(result.user), result.db,
                  <<"Atoi", "ShouldBindJSON", "First", "Updates">>)

UpdateUser(db, param, body) ==
    LET id == Atoi(param)
        found == DBFirst(db, id.val)
        bound == ShouldBindJSON(body)
        result == DBUpdates(db, found.user, bound.user)
    IN  IF ~id.ok THEN Resp(StatusBadRequest, ErrorJSON, db, <<"Atoi">>)
        ELSE IF found.err = "ErrRecordNotFound"
        THEN Resp(StatusNotFound, ErrorJSON, db, <<"Atoi", "First">>)
        ELSE IF found.err # ""
        THEN Resp(StatusInternalServerError, ErrorJSON, db, <<"Atoi", "First">>)
        ELSE IF bound.err # ""
        THEN Resp(StatusBadRequest, ErrorJSON, db, <<"Atoi", "First", "ShouldBindJSON">>)
        ELSE IF result.err # ""
        THEN Resp(StatusInternalServerError, ErrorJSON, result.db,
                  <<"Atoi", "First", "ShouldBindJSON", "Updates">>)
        ELSE Resp(StatusOK, UserJSON(result.user), result.db,
                  <<"Atoi", "First", "ShouldBindJSON", "Updates">>)

DeleteUser(db, param) ==
    LET id == Atoi(param)
        found == DBFirst(db, id.val)
        result == DBDelete(db, found.user)
    IN  IF ~id.ok THEN Resp(StatusBadRequest, ErrorJSON, db, <<"Atoi">>)
        ELSE IF found.err = "ErrRecordNotFound"
        THEN Resp(StatusNotFound, ErrorJSON, db, <<"Atoi", "First">>)
        ELSE IF found.err # ""
        THEN Resp(StatusInternalServerError, ErrorJSON, db, <<"Atoi", "First">>)
        ELSE IF result.err # ""
        THEN Resp(StatusInternalServerError, ErrorJSON, result.db,
                  <<"Atoi", "First", "Delete">>)
        ELSE Resp(StatusOK, MessageJSON, result.db, <<"Atoi", "First", "Delete">>)

\* ------------------------------------------------------------------- state

VARIABLES
    db,        \* the users table behind the shared *gorm.DB
    last,      \* Spec: the last request served, its response, the table before it
    created,   \* Spec: the records a Create of a {name, email} body has returned
               \*       and no Update or Delete has been addressed to since (history)
    deleted,   \* SpecDeleted: the ids a Delete has answered 200 for (history)
    workers    \* SpecConc: each worker's request and its place in the handler

vars == <<db, last, created, deleted, workers>>

NoRequest ==
    [op |-> "none", param |-> NoParam, body |-> NoBody, status |-> 0,
     out |-> NoOut, ops |-> <<>>, pre |-> EmptyDB]

Idle ==
    [pc |-> "idle", op |-> "none", param |-> NoParam, body |-> NoBody, id |-> 0,
     user |-> ZeroUser, updateData |-> ZeroUser, rowsAffected |-> 0,
     status |-> 0, out |-> NoOut]

\* The table is empty after AutoMigrate on a new database.
Init ==
    /\ db = EmptyDB
    /\ last = NoRequest
    /\ created = {}
    /\ deleted = {}
    /\ workers = [w \in Workers |-> Idle]

\* The model holds ids up to MaxId only.
Bounded(d) == d.seq <= MaxId /\ \A i \in RowIds(d.rows) : i <= MaxId

\* The history after a request with response r.
CreatedAfter(op, param, body, r) ==
    IF op = "CreateUser" /\ body \in NameEmailBodies /\ r.status = StatusCreated
    THEN created \cup {r.out.user}
    ELSE IF op \in {"UpdateUser", "DeleteUser"} /\ Atoi(param).ok
    THEN {u \in created : u.ID # Atoi(param).val}
    ELSE created

DeletedAfter(op, param, r) ==
    IF op = "DeleteUser" /\ r.status = StatusOK
    THEN deleted \cup {Atoi(param).val}
    ELSE deleted

\* One request served from start to end; history says which of the two
\* history variables is kept.
Serve(op, param, body, r, history) ==
    /\ Bounded(r.db)
    /\ db' = r.db
    /\ last' = [op |-> op, param |-> param, body |-> body, status |-> r.status,
                out |-> r.out, ops |-> r.ops, pre |-> db]
    /\ created' = IF history = "created" THEN CreatedAfter(op, param, body, r)
                  ELSE created
    /\ deleted' = IF history = "deleted" THEN DeletedAfter(op, param, r)
                  ELSE deleted
    /\ UNCHANGED workers

\* The routes of SetupRoutes.
ListUsersRoute(history) ==
    Serve("GetUsers", NoParam, NoBody, GetUsers(db), history)
GetUserRoute(history) ==
    \E p \in Params : Serve("GetUser", p, NoBody, GetUser(db, p), history)
CreateUserRoute(history) ==
    \E b \in Bodies : Serve("CreateUser", NoParam, b, CreateUser(db, b), history)
UpdateUserRoute(history) ==
    \E p \in Params, b \in Bodies :
        Serve("UpdateUser", p, b, UpdateUser(db, p, b), history)
DeleteUserRoute(history) ==
    \E p \in Params : Serve("DeleteUser", p, NoBody, DeleteUser(db, p), history)

Next ==
    \/ ListUsersRoute("created")
    \/ GetUserRoute("created")
    \/ CreateUserRoute("created")
    \/ UpdateUserRoute("created")
    \/ DeleteUserRoute("created")

Spec == Init /\ [][Next]_vars

NextDeleted ==
    \/ ListUsersRoute("deleted")
    \/ GetUserRoute("deleted")
    \/ CreateUserRoute("deleted")
    \/ UpdateUserRoute("deleted")
    \/ DeleteUserRoute("deleted")

SpecDeleted == Init /\ [][NextDeleted]_vars

\* ------------------------------------------------------- parallel requests

\* The requests of SpecConc.
ConcParams == { <<"1">>, <<"2">>, <<"1", "x">> }
ConcBodies ==
    { SyntaxError, Object([k \in {"name"} |-> JStr("a")]),
      Object([k \in {"id"} |-> JNum(2)]) }

\* The first library call of each handler.
FirstCallOf(op) ==
    CASE op = "GetUsers" -> "Find"
      [] op = "CreateUser" -> "ShouldBindJSON"
      [] OTHER -> "Atoi"

Set(w, rec) == workers' = [workers EXCEPT ![w] = rec]

\* c.JSON(status, out) and the handler's return.
Answer(w, status, out) ==
    Set(w, [workers[w] EXCEPT !.pc = "done", !.status = status, !.out = out])

\* The server hands a request to a worker.
Receive(w) ==
    /\ workers[w].pc = "idle"
    /\ \E op \in {"GetUsers", "GetUser", "CreateUser", "UpdateUser", "DeleteUser"},
          p \in ConcParams, b \in ConcBodies :
          /\ op \in {"GetUsers", "CreateUser"} => p = <<"1">>
          /\ op \notin {"CreateUser", "UpdateUser"} => b = SyntaxError
          /\ Set(w, [Idle EXCEPT !.pc = FirstCallOf(op), !.op = op,
                                 !.param = IF op \in {"GetUsers", "CreateUser"}
                                           THEN NoParam ELSE p,
                                 !.body = IF op \in {"CreateUser", "UpdateUser"}
                                          THEN b ELSE NoBody])
    /\ UNCHANGED <<db, last, created, deleted>>

FindCall(w) ==
    /\ workers[w].pc = "Find"
    /\ LET result == DBFind(db)
       IN  IF result.err # ""
           THEN Answer(w, StatusInternalServerError, ErrorJSON)
           ELSE Answer(w, StatusOK, UsersJSON(result.users))
    /\ UNCHANGED <<db, last, created, deleted>>

AtoiCall(w) ==
    /\ workers[w].pc = "Atoi"
    /\ LET id == Atoi(workers[w].param)
       IN  IF ~id.ok
           THEN Answer(w, StatusBadRequest, ErrorJSON)
           ELSE Set(w, [workers[w] EXCEPT !.pc = "First", !.id = id.val])
    /\ UNCHANGED <<db, last, created, deleted>>

FirstCall(w) ==
    /\ workers[w].pc = "First"
    /\ LET me == workers[w]
           result == DBFirst(db, me.id)
       IN  IF result.err = "ErrRecordNotFound"
           THEN Answer(w, StatusNotFound, ErrorJSON)
           ELSE IF result.err # ""
           THEN Answer(w, StatusInternalServerError, ErrorJSON)
           ELSE IF me.op = "GetUser"
           THEN Answer(w, StatusOK, UserJSON(result.user))
           ELSE Set(w, [me EXCEPT !.user = result.user,
                                  !.pc = IF me.op = "UpdateUser"
                                         THEN "ShouldBindJSON" ELSE "Delete"])
    /\ UNCHANGED <<db, last, created, deleted>>

BindCall(w) ==
    /\ workers[w].pc = "ShouldBindJSON"
    /\ LET me == workers[w]
           bound == ShouldBindJSON(me.body)
       IN  IF bound.err # ""
           THEN Answer(w, StatusBadRequest, ErrorJSON)
           ELSE IF me.op = "CreateUser"
           THEN Set(w, [me EXCEPT !.user = bound.user, !.pc = "Create"])
           ELSE Set(w, [me EXCEPT !.updateData = bound.user, !.pc = "Updates"])
    /\ UNCHANGED <<db, last, created, deleted>>

CreateCall(w) ==
    /\ workers[w].pc = "Create"
    /\ LET result == DBCreate(db, workers[w].user)
       IN  /\ Bounded(result.db)
           /\ db' = result.db
           /\ IF result.err # ""
              THEN Answer(w, StatusInternalServerError, ErrorJSON)
              ELSE Answer(w, StatusCreated, UserJSON(result.user))
    /\ UNCHANGED <<last, created, deleted>>

UpdatesCall(w) ==
    /\ workers[w].pc = "Updates"
    /\ LET me == workers[w]
           result == DBUpdates(db, me.user, me.updateData)
       IN  /\ db' = result.db
           /\ IF result.err # ""
              THEN Answer(w, StatusInternalServerError, ErrorJSON)
              ELSE Set(w, [me EXCEPT !.pc = "done", !.status = StatusOK,
                                     !.user = result.user,
                                     !.out = UserJSON(result.user),
                                     !.rowsAffected = result.rowsAffected])
    /\ UNCHANGED <<last, created, deleted>>

DeleteCall(w) ==
    /\ workers[w].pc = "Delete"
    /\ LET me == workers[w]
           result == DBDelete(db, me.user)
       IN  /\ db' = result.db
           /\ IF result.err # ""
              THEN Answer(w, StatusInternalServerError, ErrorJSON)
              ELSE Set(w, [me EXCEPT !.pc = "done", !.status = StatusOK,
                                     !.out = MessageJSON,
                                     !.rowsAffected = result.rowsAffected])
    /\ UNCHANGED <<last, created, deleted>>

\* The response is sent and the worker is free again.
Respond(w) ==
    /\ workers[w].pc = "done"
    /\ Set(w, Idle)
    /\ UNCHANGED <<db, last, created, deleted>>

NextConc ==
    \E w \in Workers :
        \/ Receive(w)
        \/ FindCall(w)
        \/ AtoiCall(w)
        \/ FirstCall(w)
        \/ BindCall(w)
        \/ CreateCall(w)
        \/ UpdatesCall(w)
        \/ DeleteCall(w)
        \/ Respond(w)

SpecConc == Init /\ [][NextConc]_vars

\* ------------------------------------------------------------- properties

\* What the last request of Spec was about.
LastId == Atoi(last.param)
LastBound == ShouldBindJSON(last.body)
HasId(d, id) == id \in RowIds(d.rows)
StoreOps == {"Find", "First", "Create", "Updates", "Delete"}
Touched == \E i \in 1 .. Len(last.ops) : last.ops[i] \in StoreOps

\* C1: a Create of a {name, email} body answers 201 with a record of that name
\* and email and a positive id, and a Get on that id, as long as no Update or
\* Delete has been addressed to the id since, answers 200 with that name and
\* email.
C1_CreateThenGet ==
    /\ last.op = "CreateUser" /\ last.body \in NameEmailBodies =>
          /\ last.status = StatusCreated
          /\ last.out.kind = "user"
          /\ last.out.user.Name = last.body.fields["name"].s
          /\ last.out.user.Email = last.body.fields["email"].s
          /\ last.out.user.ID > 0
    /\ last.op = "GetUser" /\ LastId.ok =>
          \A u \in created :
              u.ID = LastId.val =>
                  /\ last.status = StatusOK
                  /\ last.out.kind = "user"
                  /\ last.out.user.Name = u.Name
                  /\ last.out.user.Email = u.Email

\* A Get of a record that a Create has returned, with other requests between.
C1_Witness ==
    /\ last.op = "GetUser" /\ LastId.ok
    /\ \E u \in created : u.ID = LastId.val /\ u.Name = "a"
    /\ Cardinality(db.rows) = 2
    /\ Cardinality(created) = 1

\* C2: ids are unique in the table, and a record keeps the id it was created
\* with: an Update that succeeds leaves the record under the id of its path.
C2_IdUniqueAndStable ==
    /\ \A r, q \in db.rows : r.ID = q.ID => r = q
    /\ last.op = "UpdateUser" /\ last.status = StatusOK =>
          /\ RowIds(db.rows) = RowIds(last.pre.rows)
          /\ last.out.user.ID = LastId.val

\* C3: a Create whose body binds succeeds, with the id the table chooses (not
\* one of the body), and leaves every other record as it was.
C3_StoreAssignsId ==
    last.op = "CreateUser" /\ LastBound.err = "" =>
        /\ last.status = StatusCreated
        /\ last.out.user.ID = NextRowid(last.pre)
        /\ last.pre.rows \subseteq db.rows

\* C4: an Update of an existing id with a body that binds answers 200 with the
\* stored record merged with the body's non-empty name and email, which is
\* what is stored and what a Get on that id then answers.
C4_UpdateMerges ==
    last.op = "UpdateUser" /\ LastId.ok /\ HasId(last.pre, LastId.val)
                           /\ LastBound.err = "" =>
        LET old == CHOOSE r \in last.pre.rows : r.ID = LastId.val
            new == LastBound.user
            merged == User(old.ID,
                           IF new.Name # "" THEN new.Name ELSE old.Name,
                           IF new.Email # "" THEN new.Email ELSE old.Email)
        IN  /\ last.status = StatusOK
            /\ last.out = UserJSON(merged)
            /\ db.rows = (last.pre.rows \ {old}) \cup {merged}
            /\ GetUser(db, last.param).status = StatusOK
            /\ GetUser(db, last.param).out = last.out

\* C5: an Update of an integer id that no record has answers 404 and leaves
\* the table as it was, whatever the body.
C5_UpdateMissing ==
    last.op = "UpdateUser" /\ LastId.ok /\ ~HasId(last.pre, LastId.val) =>
        /\ last.status = StatusNotFound
        /\ db = last.pre

\* An Update of a missing id with a body that is not JSON, on a table with a record.
C5_Witness ==
    /\ last.op = "UpdateUser" /\ LastId.ok /\ ~HasId(last.pre, LastId.val)
    /\ last.body = SyntaxError
    /\ last.pre.rows # {}

\* C6: a Get on an id that is no integer answers 400 and makes no call to the
\* store; a Get on an integer id that no record has answers 404.
C6_GetErrors ==
    last.op = "GetUser" =>
        /\ ~LastId.ok => last.status = StatusBadRequest /\ ~Touched /\ db = last.pre
        /\ LastId.ok /\ ~HasId(last.pre, LastId.val) =>
              last.status = StatusNotFound /\ db = last.pre

\* A Get on an id that is no integer, on a table with a record.
C6_Witness ==
    /\ last.op = "GetUser" /\ ~LastId.ok
    /\ db.rows # {}

\* C7: once a Delete on an id has answered 200, no record is found under that
\* id again: the table has none, and a Get on it answers 404.
C7_DeletedStaysDeleted ==
    /\ \A i \in deleted : ~HasId(db, i)
    /\ last.op = "GetUser" /\ LastId.ok /\ LastId.val \in deleted =>
          last.status = StatusNotFound
    /\ last.op = "DeleteUser" /\ LastId.ok /\ ~HasId(last.pre, LastId.val) =>
          last.status = StatusNotFound

\* C8: List answers 200 with an array (never null) that holds exactly the
\* records of the table, one element each.
C8_ListIsTable ==
    last.op = "GetUsers" =>
        /\ last.status = StatusOK
        /\ last.out.kind = "array"
        /\ Len(last.out.users) = Cardinality(db.rows)
        /\ {last.out.users[i] : i \in 1 .. Len(last.out.users)} = db.rows
        /\ db = last.pre

\* A List of a table with two records, one of them updated since its creation.
C8_Witness ==
    /\ last.op = "GetUsers"
    /\ Cardinality(db.rows) = 2
    /\ \E r \in db.rows : r.Name = "a" /\ r \notin created

\* A List of the empty table.
C8_WitnessEmpty ==
    /\ last.op = "GetUsers"
    /\ db.rows = {}

C10_LookupWriteAtomic ==
    \A w \in Workers :
        LET me == workers[w]
        IN  /\ me.pc = "done" /\ me.op = "DeleteUser" /\ me.status = StatusOK =>
                  me.rowsAffected = 1
            /\ me.pc = "done" /\ me.op = "UpdateUser" /\ me.status = StatusOK
                              /\ me.updateData # ZeroUser =>
                  me.rowsAffected = 1

====
